---- MODULE Spec2Model ----
(***************************************************************************)
(* Car-dealership back office: the status lifecycle of a car unit          *)
(* (changeCarStatus, archiveCarUnit), the reconciliation of a car's        *)
(* sold_price with its transaction ledger (createTransaction,              *)
(* updateTransaction, deleteTransaction), the soft deletion of partners    *)
(* (deletePartner, updatePartner), the direct edit of a car unit           *)
(* (updateCarUnit), the per-car profit figures (getFinancialSummaryByCarId,*)
(* getDashboardKpis, getProfitReport), and the handlers run as two         *)
(* concurrent requests whose database statements interleave.               *)
(*                                                                         *)
(* Conventions.  A nullable column or an optional input is a sequence of   *)
(* length at most one: << >> is null / undefined, <<v>> is the value v.    *)
(* Money is counted in hundredths, the scale of the numeric(12,2) columns  *)
(* amount and sold_price; on such values the handlers' toString and        *)
(* parseFloat conversions are exact, so a stored amount is its integer.    *)
(* A handler call is one step (Call), followed by a Return step that       *)
(* forgets the call: last holds the call, its outcome and the audit rows   *)
(* it inserted, pre holds the stored rows as they were when it started.    *)
(* The audit_logs table is only ever inserted into and never read by       *)
(* these handlers; last.audit holds the rows the current call inserted,    *)
(* and the specifications that follow the table itself (SpecAudit,         *)
(* SpecStatusConc) put them into audit_logs.                               *)
(* Columns no handler reads back (timestamps, descriptive fields, the      *)
(* stored percentage, description and date of a transaction) are left out. *)
(***************************************************************************)
EXTENDS Integers, Sequences, FiniteSets

VARIABLES cars, transactions, nextTxId, partners, last, pre, procs, audit_logs

vars == <<cars, transactions, nextTxId, partners, last, pre, procs, audit_logs>>

\* ---------------------------------------------------------------- bounds

\* Car units in the store.  A handler touches at most two of them (the old
\* and the new car of an updated transaction).
CarIds == {1, 2}

\* An id no car unit has (the handlers' "not found" paths; the tests use 99999).
NoSuchCar == 99999

\* Transactions ever inserted (ids are serial and never reused).
MaxTx == 2

\* Partners in the store.
PartnerIds == {1, 2}

\* An id no partner has (the tests use 999).
NoSuchPartner == 999

\* Input amounts, in hundredths: zero and a positive amount.
Amounts == {0, 1}

\* ------------------------------------------------------------ data model

Null == << >>

Some(v) == <<v>>

\* schema.ts unitStatusEnum
UnitStatus == {"draft", "bought", "recond", "ready", "listed", "sold", "archived"}

\* Optional notes of a status change: absent, the empty string, a text.
NotesInputs == {Null, Some(""), Some("n")}

\* schema.ts transactionTypeEnum
TransactionType ==
    {"acquisition", "broker_fee", "workshop", "detailing", "transport",
     "admin", "tax", "other_expense", "sale_income", "other_income"}

\* The types the calls are made with: sale_income, and broker_fee, which is
\* handled like every other type unless it is created with a percentage.
InputTypes == {"sale_income", "broker_fee"}

\* Optional percentage of a created transaction: absent/null, or 50 percent.
Percentages == {Null, Some(50)}

TxIds == 1 .. MaxTx

\* JavaScript truthiness of an optional string: undefined and "" are falsy.
Truthy(optStr) == optStr # Null /\ optStr # Some("")

Idle == [op |-> "idle"]

\* A stock code is a text; it is kept as the sequence of the parts that the
\* handlers put together with "-" ("A-DUP-1" is <<"A", "DUP", "1">>).
\* The seeded car units have the codes A and B.
SeedStockCode == [c \in CarIds |-> IF c = 1 THEN <<"A">> ELSE <<"B">>]

\* ------------------------------------------------- status transition engine

\* change_car_status.ts ALLOWED_TRANSITIONS
ALLOWED_TRANSITIONS ==
    [s \in UnitStatus |->
        CASE s = "draft"    -> {"bought", "archived"}
          [] s = "bought"   -> {"recond", "ready", "archived"}
          [] s = "recond"   -> {"ready", "listed", "archived"}
          [] s = "ready"    -> {"listed", "sold", "archived"}
          [] s = "listed"   -> {"sold", "recond", "archived"}
          [] s = "sold"     -> {"archived"}
          [] s = "archived" -> {}]

\* Mutant: the table check comes first.
ChangeStatusCheck_TableFirst(cur, new_status) ==
    IF new_status \notin ALLOWED_TRANSITIONS[cur] THEN "InvalidTransition"
    ELSE IF cur = new_status THEN "AlreadyInStatus"
    ELSE "ok"

\* Mutant: the edge listed -> recond is missing.
ChangeStatusCheck_NoBacktrack(cur, new_status) ==
    IF cur = new_status THEN "AlreadyInStatus"
    ELSE IF new_status \notin ALLOWED_TRANSITIONS[cur] \ {"recond"} THEN "InvalidTransition"
    ELSE "ok"

\* Mutant: archived is not terminal for the general engine.
ChangeStatusCheck_Unarchive(cur, new_status) ==
    IF cur = new_status THEN "AlreadyInStatus"
    ELSE IF cur # "archived" /\ new_status \notin ALLOWED_TRANSITIONS[cur]
         THEN "InvalidTransition"
    ELSE "ok"

\* The validation of changeCarStatus, in the order of the code: the error it
\* throws for a stored car in status cur asked to go to new_status, or "ok".
ChangeStatusCheck(cur, new_status) ==
    IF cur = new_status THEN "AlreadyInStatus"
    ELSE IF new_status \notin ALLOWED_TRANSITIONS[cur] THEN "InvalidTransition"
    ELSE "ok"

\* Mutant: archiveCarUnit follows the general table.
ArchiveCheck_Table(cur) ==
    IF "archived" \notin ALLOWED_TRANSITIONS[cur] THEN "InvalidStatus" ELSE "ok"

\* Mutant: archiveCarUnit accepts an archived car again.
ArchiveCheck_Rearchive(cur) ==
    IF cur \notin {"sold", "archived"} THEN "InvalidStatus" ELSE "ok"

\* The validation of archiveCarUnit.
ArchiveCheck(cur) ==
    IF cur # "sold" THEN "InvalidStatus" ELSE "ok"

\* StatusChangeForm.tsx statusTransitions: the targets the client's form
\* offers for a current status.
statusTransitions ==
    [s \in UnitStatus |->
        CASE s = "draft"    -> {"bought"}
          [] s = "bought"   -> {"recond", "ready"}
          [] s = "recond"   -> {"ready", "bought"}
          [] s = "ready"    -> {"listed", "recond"}
          [] s = "listed"   -> {"sold", "recond"}
          [] s = "sold"     -> {"archived"}
          [] s = "archived" -> {}]

\* Mutant: a car unit that is sold without a price gets the price zero.
ChangeStatusRow_AutoPrice(car, new_status, notes) ==
    [car EXCEPT !.status = new_status,
                !.notes = IF Truthy(notes) THEN notes ELSE @,
                !.sold_price = IF new_status = "sold" /\ @ = Null THEN Some(0) ELSE @]

\* The row changeCarStatus writes: status, and notes only when truthy.
ChangeStatusRow(car, new_status, notes) ==
    [car EXCEPT !.status = new_status,
                !.notes = IF Truthy(notes) THEN notes ELSE @]

\* The row archiveCarUnit writes.
ArchiveRow(car) == [car EXCEPT !.status = "archived"]

Snapshot ==
    [cars |-> cars, transactions |-> transactions, partners |-> partners,
     audit_logs |-> audit_logs]

changeCarStatus(car_id, new_status, notes) ==
    /\ last = Idle
    /\ pre' = Snapshot
    /\ UNCHANGED <<transactions, nextTxId, partners, procs>>
    /\ LET in == [car_id |-> car_id, new_status |-> new_status, notes |-> notes]
       IN
       IF car_id \notin DOMAIN cars
       THEN /\ last' = [op |-> "changeCarStatus", in |-> in, err |-> "NotFound",
                        audit |-> << >>]
            /\ UNCHANGED cars
       ELSE LET currentCar == cars[car_id]
                err == ChangeStatusCheck(currentCar.status, new_status)
                updatedCar == ChangeStatusRow(currentCar, new_status, notes)
            IN
            IF err # "ok"
            THEN /\ last' = [op |-> "changeCarStatus", in |-> in, err |-> err,
                             audit |-> << >>]
                 /\ UNCHANGED cars
            ELSE /\ cars' = [cars EXCEPT ![car_id] = updatedCar]
                 /\ last' = [op |-> "changeCarStatus", in |-> in, err |-> "ok",
                             audit |-> <<[entity_type |-> "car_unit",
                                          entity_id |-> car_id,
                                          action |-> "status_change",
                                          before_data |-> Some([status |-> currentCar.status,
                                                                notes |-> currentCar.notes]),
                                          after_data |-> Some([status |-> new_status,
                                                               notes |-> IF Truthy(notes) THEN notes
                                                                         ELSE currentCar.notes])]>>]

archiveCarUnit(carId) ==
    /\ last = Idle
    /\ pre' = Snapshot
    /\ UNCHANGED <<transactions, nextTxId, partners, procs>>
    /\ LET in == [carId |-> carId]
       IN
       IF carId \notin DOMAIN cars
       THEN /\ last' = [op |-> "archiveCarUnit", in |-> in, err |-> "NotFound",
                        audit |-> << >>]
            /\ UNCHANGED cars
       ELSE LET existingCar == cars[carId]
                err == ArchiveCheck(existingCar.status)
            IN
            IF err # "ok"
            THEN /\ last' = [op |-> "archiveCarUnit", in |-> in, err |-> err,
                             audit |-> << >>]
                 /\ UNCHANGED cars
            ELSE /\ cars' = [cars EXCEPT ![carId] = ArchiveRow(existingCar)]
                 /\ last' = [op |-> "archiveCarUnit", in |-> in, err |-> "ok",
                             audit |-> <<[entity_type |-> "car_unit",
                                          entity_id |-> carId,
                                          action |-> "status_change",
                                          before_data |-> Some([status |-> existingCar.status]),
                                          after_data |-> Some([status |-> "archived"])]>>]

\* ------------------------------------------------ transaction ledger reconciler

RECURSIVE SumAmounts(_)
\* reduce((sum, t) => sum + parseFloat(t.amount), 0) over a set of rows
SumAmounts(rows) ==
    IF rows = {} THEN 0
    ELSE LET t == CHOOSE r \in rows : TRUE
         IN t.amount + SumAmounts(rows \ {t})

\* Mutant: the type filter is missing.
SaleIncomeRows_AnyType(txs, carId) == {t \in txs : t.car_id = carId}

\* select ... where car_id = carId and type = 'sale_income'
SaleIncomeRows(txs, carId) ==
    {t \in txs : t.car_id = carId /\ t.type = "sale_income"}

\* A value of hundredths * percent / 100 stored in a numeric(12,2) column:
\* rounded to the nearest hundredth, halves away from zero.
RoundHundredths(n) ==
    IF n >= 0 THEN (n + 50) \div 100 ELSE 0 - ((50 - n) \div 100)

\* Mutant: the percentage is applied whatever the type.
FinalAmount_AnyType(type, amount, percentage, sold_price) ==
    IF percentage # << >> /\ sold_price # << >>
    THEN RoundHundredths(sold_price[1] * percentage[1])
    ELSE amount

\* createTransaction: the amount stored (finalAmount).
FinalAmount(type, amount, percentage, sold_price) ==
    IF type = "broker_fee" /\ percentage # Null /\ sold_price # Null
    THEN RoundHundredths(sold_price[1] * percentage[1])
    ELSE amount

\* Mutant: a sale_income creation adds to the stored price.
CreateSoldPrice_Cumulative(type, finalAmount, stored) ==
    IF type = "sale_income"
    THEN Some(finalAmount + (IF stored = << >> THEN 0 ELSE stored[1]))
    ELSE stored

\* Mutant: a creation of any type sets the price.
CreateSoldPrice_AnyType(type, finalAmount, stored) == <<finalAmount>>

\* createTransaction: the sold_price it leaves on the car.
CreateSoldPrice(type, finalAmount, stored) ==
    IF type = "sale_income" THEN Some(finalAmount) ELSE stored

\* A key of the object given to drizzle's update().set(): a value, or
\* undefined.  set() leaves out the keys whose value is undefined, so the
\* column keeps what is stored.
SetColumn(stored, key) == IF key.defined THEN key.value ELSE stored

\* recalculateSoldPrice of updateTransaction: soldPrice?.toString(), which is
\* undefined when soldPrice is null.
RecalculatedKey(totalSaleIncome) ==
    IF totalSaleIncome > 0
    THEN [defined |-> TRUE, value |-> Some(totalSaleIncome)]
    ELSE [defined |-> FALSE, value |-> Null]

\* recalculateSoldPrice(carId): the car row it writes, given the stored
\* transactions.
recalculateSoldPrice(txs, car, carId) ==
    [car EXCEPT !.sold_price =
        SetColumn(@, RecalculatedKey(SumAmounts(SaleIncomeRows(txs, carId))))]

\* Mutant: >= for >, so an empty ledger stores 0.
DeletedKey_Zero(newSoldPrice) ==
    [defined |-> TRUE,
     value |-> IF newSoldPrice >= 0 THEN <<newSoldPrice>> ELSE << >>]

\* deleteTransaction: newSoldPrice > 0 ? newSoldPrice.toString() : null
DeletedKey(newSoldPrice) ==
    [defined |-> TRUE,
     value |-> IF newSoldPrice > 0 THEN Some(newSoldPrice) ELSE Null]

\* updateTransaction: whether the car's sold_price is recalculated.
UpdateRecalculates(oldType, newType) ==
    oldType = "sale_income" \/ newType = "sale_income"

\* updateTransaction: the car whose sold_price is recalculated.
UpdateRecalcCar(input_car_id, current_car_id) ==
    IF input_car_id # Null THEN input_car_id[1] ELSE current_car_id

\* An optional input of an update: undefined (the column is left alone), or a
\* value, which for a nullable column may be null.
Undefined == [defined |-> FALSE, value |-> Null]

Defined(v) == [defined |-> TRUE, value |-> v]

\* transactions.partner_id references partners.id: an update that stores the
\* id of no partner is rejected by the database and changes nothing.
PartnerKeyDangles(partner_id) ==
    partner_id.defined /\ partner_id.value # Null /\ partner_id.value[1] \notin PartnerIds

TxAudit(id, action, before, after) ==
    <<[entity_type |-> "transaction", entity_id |-> id, action |-> action,
       before_data |-> before, after_data |-> after]>>

createTransaction(car_id, partner_id, type, amount, percentage) ==
    /\ last = Idle
    /\ nextTxId <= MaxTx
    /\ pre' = Snapshot
    /\ UNCHANGED <<partners, procs>>
    /\ LET in == [car_id |-> car_id, partner_id |-> partner_id, type |-> type,
                  amount |-> amount, percentage |-> percentage]
       IN
       IF car_id \notin DOMAIN cars
       THEN /\ last' = [op |-> "createTransaction", in |-> in, err |-> "NotFound",
                        audit |-> << >>]
            /\ UNCHANGED <<cars, transactions, nextTxId>>
       ELSE IF partner_id # Null /\ partner_id[1] \notin PartnerIds
       THEN /\ last' = [op |-> "createTransaction", in |-> in, err |-> "PartnerNotFound",
                        audit |-> << >>]
            /\ UNCHANGED <<cars, transactions, nextTxId>>
       ELSE LET finalAmount == FinalAmount(type, amount, percentage, cars[car_id].sold_price)
                transaction == [id |-> nextTxId, car_id |-> car_id,
                                partner_id |-> partner_id, type |-> type,
                                amount |-> finalAmount]
            IN
            /\ transactions' = transactions \cup {transaction}
            /\ nextTxId' = nextTxId + 1
            /\ cars' = [cars EXCEPT ![car_id].sold_price =
                            CreateSoldPrice(type, finalAmount, @)]
            /\ last' = [op |-> "createTransaction", in |-> in, err |-> "ok",
                        id |-> transaction.id,
                        audit |-> TxAudit(transaction.id, "create", Null, Some(transaction))]

updateTransaction(id, car_id, partner_id, type, amount) ==
    /\ last = Idle
    /\ pre' = Snapshot
    /\ UNCHANGED <<nextTxId, partners, procs>>
    /\ LET in == [id |-> id, car_id |-> car_id, partner_id |-> partner_id,
                  type |-> type, amount |-> amount]
       IN
       IF ~ \E t \in transactions : t.id = id
       THEN /\ last' = [op |-> "updateTransaction", in |-> in, err |-> "NotFound",
                        audit |-> << >>]
            /\ UNCHANGED <<cars, transactions>>
       ELSE LET currentTransaction == CHOOSE t \in transactions : t.id = id
            IN
            IF car_id # Null /\ car_id[1] # currentTransaction.car_id /\ car_id[1] \notin DOMAIN cars
            THEN /\ last' = [op |-> "updateTransaction", in |-> in, err |-> "NotFound",
                             audit |-> << >>]
                 /\ UNCHANGED <<cars, transactions>>
            ELSE IF PartnerKeyDangles(partner_id)
            THEN /\ last' = [op |-> "updateTransaction", in |-> in, err |-> "ForeignKey",
                             audit |-> << >>]
                 /\ UNCHANGED <<cars, transactions>>
            ELSE LET updatedTransaction ==
                         [id |-> id,
                          car_id |-> IF car_id # Null THEN car_id[1]
                                     ELSE currentTransaction.car_id,
                          partner_id |-> SetColumn(currentTransaction.partner_id, partner_id),
                          type |-> IF type # Null THEN type[1]
                                   ELSE currentTransaction.type,
                          amount |-> IF amount # Null THEN amount[1]
                                     ELSE currentTransaction.amount]
                     txs == (transactions \ {currentTransaction}) \cup {updatedTransaction}
                     oldType == currentTransaction.type
                     newType == IF type # Null THEN type[1] ELSE oldType
                     carId == UpdateRecalcCar(car_id, currentTransaction.car_id)
                 IN
                 /\ transactions' = txs
                 /\ cars' = IF UpdateRecalculates(oldType, newType)
                            THEN [cars EXCEPT ![carId] = recalculateSoldPrice(txs, @, carId)]
                            ELSE cars
                 /\ last' = [op |-> "updateTransaction", in |-> in, err |-> "ok",
                             audit |-> TxAudit(id, "update", Some(currentTransaction),
                                               Some(updatedTransaction))]

deleteTransaction(transactionId) ==
    /\ last = Idle
    /\ pre' = Snapshot
    /\ UNCHANGED <<nextTxId, partners, procs>>
    /\ LET in == [transactionId |-> transactionId]
       IN
       IF ~ \E t \in transactions : t.id = transactionId
       THEN /\ last' = [op |-> "deleteTransaction", in |-> in, err |-> "NotFound",
                        audit |-> << >>]
            /\ UNCHANGED <<cars, transactions>>
       ELSE LET transaction == CHOOSE t \in transactions : t.id = transactionId
                carId == transaction.car_id
                txs == transactions \ {transaction}
                newSoldPrice == SumAmounts(SaleIncomeRows(txs, carId))
            IN
            /\ transactions' = txs
            /\ cars' = IF transaction.type = "sale_income"
                       THEN [cars EXCEPT ![carId].sold_price =
                                SetColumn(@, DeletedKey(newSoldPrice))]
                       ELSE cars
            /\ last' = [op |-> "deleteTransaction", in |-> in, err |-> "ok",
                        audit |-> TxAudit(transactionId, "delete", Some(transaction), Null)]

\* ---------------------------------------------------------------- partners

\* select count(*) from transactions where partner_id = partnerId
TransactionCount(txs, partnerId) ==
    Cardinality({t \in txs : t.partner_id = Some(partnerId)})

\* Mutant: the dependents check is missing.
DeletePartnerCheck_NoDependents(partner, transactionCount) ==
    IF ~ partner.is_active THEN "AlreadyInactive" ELSE "ok"

\* The validation of deletePartner on a stored partner, in the order of the
\* code: the error it throws, or "ok".
DeletePartnerCheck(partner, transactionCount) ==
    IF ~ partner.is_active THEN "AlreadyInactive"
    ELSE IF transactionCount > 0 THEN "HasDependents"
    ELSE "ok"

PartnerAudit(id, action, before, after) ==
    <<[entity_type |-> "partner", entity_id |-> id, action |-> action,
       before_data |-> Some(before), after_data |-> Some(after)]>>

\* Mutant: the partner is deactivated before the checks are made.
deletePartner_DeactivatesFirst(partnerId) ==
    /\ last = Idle
    /\ pre' = Snapshot
    /\ UNCHANGED <<cars, transactions, nextTxId, procs>>
    /\ LET in == [partnerId |-> partnerId]
       IN
       IF partnerId \notin PartnerIds
       THEN /\ last' = [op |-> "deletePartner", in |-> in, err |-> "NotFound",
                        audit |-> << >>]
            /\ UNCHANGED partners
       ELSE LET partner == partners[partnerId]
                err == DeletePartnerCheck(partner, TransactionCount(transactions, partnerId))
                updatedPartner == [partner EXCEPT !.is_active = FALSE]
            IN
            /\ partners' = [partners EXCEPT ![partnerId] = updatedPartner]
            /\ last' = [op |-> "deletePartner", in |-> in, err |-> err,
                        audit |-> IF err = "ok"
                                  THEN PartnerAudit(partnerId, "delete", partner, updatedPartner)
                                  ELSE << >>]

deletePartner(partnerId) ==
    /\ last = Idle
    /\ pre' = Snapshot
    /\ UNCHANGED <<cars, transactions, nextTxId, procs>>
    /\ LET in == [partnerId |-> partnerId]
       IN
       IF partnerId \notin PartnerIds
       THEN /\ last' = [op |-> "deletePartner", in |-> in, err |-> "NotFound",
                        audit |-> << >>]
            /\ UNCHANGED partners
       ELSE LET partner == partners[partnerId]
                err == DeletePartnerCheck(partner, TransactionCount(transactions, partnerId))
                updatedPartner == [partner EXCEPT !.is_active = FALSE]
            IN
            IF err # "ok"
            THEN /\ last' = [op |-> "deletePartner", in |-> in, err |-> err,
                             audit |-> << >>]
                 /\ UNCHANGED partners
            ELSE /\ partners' = [partners EXCEPT ![partnerId] = updatedPartner]
                 /\ last' = [op |-> "deletePartner", in |-> in, err |-> "ok",
                             audit |-> PartnerAudit(partnerId, "delete", partner,
                                                    updatedPartner)]

\* updatePartner writes the fields that are provided; it makes no check
\* besides the existence of the partner.
updatePartner(id, name, is_active) ==
    /\ last = Idle
    /\ pre' = Snapshot
    /\ UNCHANGED <<cars, transactions, nextTxId, procs>>
    /\ LET in == [id |-> id, name |-> name, is_active |-> is_active]
       IN
       IF id \notin PartnerIds
       THEN /\ last' = [op |-> "updatePartner", in |-> in, err |-> "NotFound",
                        audit |-> << >>]
            /\ UNCHANGED partners
       ELSE LET existingPartner == partners[id]
                updatedPartner == [name |-> SetColumn(existingPartner.name, name),
                                   is_active |-> SetColumn(existingPartner.is_active,
                                                           is_active)]
            IN
            /\ partners' = [partners EXCEPT ![id] = updatedPartner]
            /\ last' = [op |-> "updatePartner", in |-> in, err |-> "ok",
                        audit |-> PartnerAudit(id, "update", existingPartner,
                                               updatedPartner)]

\* ----------------------------------------------------------- car inventory

\* Car units the store can hold (two are seeded; units are never removed).
MaxCars == 4

\* The ids of car_units are serial: a new unit gets the next one.  (The values
\* a failed insert takes from the sequence are not counted.)
NextCarId(units) == Len(units) + 1

\* The stock codes in use.
StockCodes(units) == {units[c].stock_code : c \in DOMAIN units}

\* The unique constraint of car_units.stock_code, as the insert of a row with
\* the code meets it.
UniqueViolation(units, stock_code) == stock_code \in StockCodes(units)

CarAudit(id, action, before, after) ==
    <<[entity_type |-> "car_unit", entity_id |-> id, action |-> action,
       before_data |-> before, after_data |-> after]>>

\* createCarUnit: input.status || 'draft'.
CreateStatus(status) == IF status # Null THEN status[1] ELSE "draft"

\* createCarUnit: input.notes || null.
CreateNotes(notes) == IF Truthy(notes) THEN notes ELSE Null

\* createCarUnit: input.sold_price ? input.sold_price.toString() : null.
CreatePrice(sold_price) ==
    IF sold_price # Null /\ sold_price[1] # 0 THEN sold_price ELSE Null

\* Mutant: createCarUnit does not look for the stock code first and the
\* column has no unique constraint.
createCarUnit_NoCheck(stock_code, status, sold_price, notes) ==
    /\ last = Idle
    /\ Len(cars) < MaxCars
    /\ pre' = Snapshot
    /\ UNCHANGED <<transactions, nextTxId, partners, procs>>
    /\ LET in == [stock_code |-> stock_code, status |-> status,
                  sold_price |-> sold_price, notes |-> notes]
           id == NextCarId(cars)
           carUnit == [stock_code |-> stock_code, status |-> CreateStatus(status),
                       sold_price |-> CreatePrice(sold_price),
                       notes |-> CreateNotes(notes)]
       IN /\ cars' = Append(cars, carUnit)
          /\ last' = [op |-> "createCarUnit", in |-> in, err |-> "ok", id |-> id,
                      audit |-> CarAudit(id, "create", Null, Some(carUnit))]

createCarUnit(stock_code, status, sold_price, notes) ==
    /\ last = Idle
    /\ Len(cars) < MaxCars
    /\ pre' = Snapshot
    /\ UNCHANGED <<transactions, nextTxId, partners, procs>>
    /\ LET in == [stock_code |-> stock_code, status |-> status,
                  sold_price |-> sold_price, notes |-> notes]
           existingUnit == {c \in DOMAIN cars : cars[c].stock_code = stock_code}
           id == NextCarId(cars)
           carUnit == [stock_code |-> stock_code, status |-> CreateStatus(status),
                       sold_price |-> CreatePrice(sold_price),
                       notes |-> CreateNotes(notes)]
       IN
       IF existingUnit # {}
       THEN /\ last' = [op |-> "createCarUnit", in |-> in, err |-> "DuplicateStockCode",
                        audit |-> << >>]
            /\ UNCHANGED cars
       ELSE /\ cars' = Append(cars, carUnit)
            /\ last' = [op |-> "createCarUnit", in |-> in, err |-> "ok", id |-> id,
                        audit |-> CarAudit(id, "create", Null, Some(carUnit))]

\* Mutant: the copy keeps the status and the price of the original.
DuplicatedRow_Verbatim(originalCar, newStockCode) ==
    [originalCar EXCEPT !.stock_code = newStockCode]

\* The row duplicateCarUnit inserts.
DuplicatedRow(originalCar, newStockCode) ==
    [stock_code |-> newStockCode, status |-> "draft", sold_price |-> Null,
     notes |-> originalCar.notes]

\* duplicateCarUnit: `${originalCar.stock_code}-DUP-${timestamp}`.
NewStockCode(stock_code, timestamp) == stock_code \o <<"DUP", timestamp>>

\* duplicateCarUnit; timestamp is what Date.now() returns during the call.
duplicateCarUnit(carId, timestamp) ==
    /\ last = Idle
    /\ Len(cars) < MaxCars
    /\ pre' = Snapshot
    /\ UNCHANGED <<transactions, nextTxId, partners, procs>>
    /\ LET in == [carId |-> carId, timestamp |-> timestamp]
       IN
       IF carId \notin DOMAIN cars
       THEN /\ last' = [op |-> "duplicateCarUnit", in |-> in, err |-> "NotFound",
                        audit |-> << >>]
            /\ UNCHANGED cars
       ELSE LET originalCar == cars[carId]
                newStockCode == NewStockCode(originalCar.stock_code, timestamp)
                id == NextCarId(cars)
                duplicatedCar == DuplicatedRow(originalCar, newStockCode)
            IN
            IF UniqueViolation(cars, newStockCode)
            THEN /\ last' = [op |-> "duplicateCarUnit", in |-> in,
                             err |-> "UniqueViolation", audit |-> << >>]
                 /\ UNCHANGED cars
            ELSE /\ cars' = Append(cars, duplicatedCar)
                 /\ last' = [op |-> "duplicateCarUnit", in |-> in, err |-> "ok",
                             id |-> id,
                             audit |-> CarAudit(id, "create", Null,
                                           Some([action |-> "duplicate",
                                                 original_car_id |-> carId,
                                                 duplicated_car_id |-> id,
                                                 new_stock_code |-> newStockCode]))]

\* ------------------------------------------------------- direct car-unit edit

\* updateCarUnit: updateData.sold_price = input.sold_price?.toString(), which
\* is undefined for a null input as well as for an absent one.
UpdateCarUnitPriceKey(sold_price) ==
    IF sold_price.defined /\ sold_price.value # Null
    THEN Defined(sold_price.value)
    ELSE Undefined

\* updateCarUnit: the input names a stock code that differs from the unit's
\* own and that another unit has.
StockCodeTaken(units, id, stock_code) ==
    /\ stock_code.defined
    /\ stock_code.value # units[id].stock_code
    /\ \E c \in DOMAIN units \ {id} : units[c].stock_code = stock_code.value

\* updateCarUnit, for the columns the other handlers read or write: stock_code,
\* notes, status and sold_price.
updateCarUnit(id, stock_code, notes, status, sold_price) ==
    /\ last = Idle
    /\ pre' = Snapshot
    /\ UNCHANGED <<transactions, nextTxId, partners, procs>>
    /\ LET in == [id |-> id, stock_code |-> stock_code, notes |-> notes,
                  status |-> status, sold_price |-> sold_price]
       IN
       IF id \notin DOMAIN cars
       THEN /\ last' = [op |-> "updateCarUnit", in |-> in, err |-> "NotFound",
                        audit |-> << >>]
            /\ UNCHANGED cars
       ELSE LET existingCarUnit == cars[id]
                updatedCarUnit ==
                    [stock_code |-> SetColumn(existingCarUnit.stock_code, stock_code),
                     notes |-> SetColumn(existingCarUnit.notes, notes),
                     status |-> SetColumn(existingCarUnit.status, status),
                     sold_price |-> SetColumn(existingCarUnit.sold_price,
                                              UpdateCarUnitPriceKey(sold_price))]
            IN
            IF StockCodeTaken(cars, id, stock_code)
            THEN /\ last' = [op |-> "updateCarUnit", in |-> in,
                             err |-> "DuplicateStockCode", audit |-> << >>]
                 /\ UNCHANGED cars
            ELSE /\ cars' = [cars EXCEPT ![id] = updatedCarUnit]
                 /\ last' = [op |-> "updateCarUnit", in |-> in, err |-> "ok",
                             out |-> updatedCarUnit,
                             audit |-> CarAudit(id, "update", Some(existingCarUnit),
                                                Some(updatedCarUnit))]

\* ------------------------------------------------------------ profit figures

\* The columns active_stock_count and average_days_to_sale of the dashboard,
\* the average and the period of the profit report and the units' brand and
\* model are left out: they are computed from no transaction.  The profit
\* report is asked for without a date filter.

\* Mutant: broker_fee is missing from the expense types.
expenseTypes_NoBrokerFee ==
    {"workshop", "detailing", "transport", "admin", "tax", "other_expense"}

expenseTypes ==
    {"broker_fee", "workshop", "detailing", "transport", "admin", "tax", "other_expense"}

incomeTypes == {"sale_income", "other_income"}

RowsOfType(rows, types) == {t \in rows : t.type \in types}

\* Mutant: the sum of the sale_income rows is preferred to the stored price.
SummarySoldPrice_PrefersLedger(stored, sale_income_total) ==
    IF sale_income_total > 0 THEN <<sale_income_total>> ELSE stored

\* getFinancialSummaryByCarId: sold_price.  The stored value is a decimal
\* string, truthy whenever it is not null ("0.00" too).
SummarySoldPrice(stored, sale_income_total) ==
    IF stored # Null THEN stored
    ELSE IF sale_income_total > 0 THEN Some(sale_income_total)
    ELSE Null

\* getFinancialSummaryByCarId: the summary of a stored car.
FinancialSummary(txs, car, carId) ==
    LET rows == {t \in txs : t.car_id = carId}
        total_acquisition == SumAmounts(RowsOfType(rows, {"acquisition"}))
        total_expenses == SumAmounts(RowsOfType(rows, expenseTypes))
        total_incomes == SumAmounts(RowsOfType(rows, incomeTypes))
        sale_income_total == SumAmounts(RowsOfType(rows, {"sale_income"}))
    IN [car_id |-> carId,
        total_acquisition |-> total_acquisition,
        total_expenses |-> total_expenses,
        total_incomes |-> total_incomes,
        profit |-> total_incomes - total_acquisition - total_expenses,
        sold_price |-> SummarySoldPrice(car.sold_price, sale_income_total)]

getFinancialSummaryByCarId(carId) ==
    /\ last = Idle
    /\ pre' = Snapshot
    /\ UNCHANGED <<cars, transactions, nextTxId, partners, procs, audit_logs>>
    /\ last' = IF carId \notin DOMAIN cars
               THEN [op |-> "getFinancialSummaryByCarId", in |-> [carId |-> carId],
                     err |-> "NotFound", audit |-> << >>]
               ELSE [op |-> "getFinancialSummaryByCarId", in |-> [carId |-> carId],
                     err |-> "ok", audit |-> << >>,
                     out |-> FinancialSummary(transactions, cars[carId], carId)]

\* getDashboardKpis: the profit of one row of profitQuery, a car joined with
\* its transactions.
DashboardProfit(txs, car, carId) ==
    LET rows == {t \in txs : t.car_id = carId}
        totalExpenses ==
            SumAmounts(RowsOfType(rows, {"acquisition", "broker_fee", "workshop",
                                         "detailing", "transport", "admin", "tax",
                                         "other_expense"}))
        totalIncome == SumAmounts(RowsOfType(rows, {"sale_income", "other_income"}))
        soldPrice == IF car.sold_price # Null THEN car.sold_price[1] ELSE 0
    IN soldPrice + totalIncome - totalExpenses

RECURSIVE SumProfits(_, _)
\* reduce((sum, car) => sum + car.profit, 0)
SumProfits(profit, ids) ==
    IF ids = {} THEN 0
    ELSE LET c == CHOOSE x \in ids : TRUE
         IN profit[c] + SumProfits(profit, ids \ {c})

getDashboardKpis ==
    /\ last = Idle
    /\ pre' = Snapshot
    /\ UNCHANGED <<cars, transactions, nextTxId, partners, procs, audit_logs>>
    /\ LET ids == {c \in DOMAIN cars : \E t \in transactions : t.car_id = c}
           profitData == [c \in ids |-> DashboardProfit(transactions, cars[c], c)]
           positive == {c \in ids : profitData[c] > 0}
       IN last' =
              [op |-> "getDashboardKpis", in |-> Null, err |-> "ok", audit |-> << >>,
               out |-> [profitData |-> profitData,
                        total_period_profit |-> SumProfits(profitData, ids),
                        top_profit |->
                            IF ids = {} THEN Null
                            ELSE Some(CHOOSE m \in {profitData[c] : c \in ids} :
                                          \A c \in ids : profitData[c] <= m),
                        bottom_profit |->
                            IF positive = {} THEN Null
                            ELSE Some(CHOOSE m \in {profitData[c] : c \in positive} :
                                          \A c \in positive : m <= profitData[c])]]

\* getProfitReport: unitProfit of a sold unit.
ReportUnitProfit(txs, car, carId) ==
    LET soldPrice == IF car.sold_price # Null THEN car.sold_price[1] ELSE 0
        totalExpenses ==
            SumAmounts({t \in txs : /\ t.car_id = carId
                                    /\ t.type # "sale_income"
                                    /\ t.type # "other_income"})
    IN soldPrice - totalExpenses

getProfitReport ==
    /\ last = Idle
    /\ pre' = Snapshot
    /\ UNCHANGED <<cars, transactions, nextTxId, partners, procs, audit_logs>>
    /\ LET soldUnits == {c \in DOMAIN cars : cars[c].status = "sold" /\ cars[c].sold_price # Null}
           unitProfit == [c \in soldUnits |-> ReportUnitProfit(transactions, cars[c], c)]
       IN last' =
              [op |-> "getProfitReport", in |-> Null, err |-> "ok", audit |-> << >>,
               out |-> [unitProfit |-> unitProfit,
                        total_profit |-> SumProfits(unitProfit, soldUnits),
                        units_sold |-> Cardinality(soldUnits)]]

\* The call has been answered; the next one may start.
Return ==
    /\ last # Idle
    /\ last' = Idle
    /\ pre' = Snapshot
    /\ UNCHANGED <<cars, transactions, nextTxId, partners, procs, audit_logs>>

\* ------------------------------------------------------ concurrent requests

\* The handlers are async functions that await one database statement after
\* another, outside any database transaction, so the statements of two
\* requests in flight interleave.  A step below is one statement together with
\* the computation that follows it up to the next await.  The requests are the
\* ledger handlers on sale_income rows of one car, which is where they meet:
\* in the car's sold_price.  Of a request that has finished, the fields op,
\* car_id, id, amount, err and raced are kept (raced: it overlapped with a request of
\* the other process).

\* Two requests at a time.
Procs == {1, 2}

\* Amounts of the concurrent requests, in hundredths: two different positive ones.
ConcAmounts == {1, 2}

IdleProc ==
    [pc |-> "idle", op |-> "none", car_id |-> 0, id |-> 0, amount |-> 0,
     row |-> Null, updated |-> FALSE, total |-> 0, err |-> "none", raced |-> FALSE,
     new_status |-> "none"]

Other(p) == CHOOSE q \in Procs : q # p

Running(p) == procs[p].pc # "idle"

\* Process p takes up (or, with pc idle, has already answered) a request.
Accept(p, request) ==
    [procs EXCEPT ![p] = [request EXCEPT !.raced = Running(Other(p))],
                  ![Other(p)] = [@ EXCEPT !.raced = @ \/ Running(Other(p))]]

\* createTransaction, first statement: the car is looked up (car units are
\* never removed).
BeginCreate(p, car_id, amount) ==
    /\ ~ Running(p)
    /\ nextTxId + Cardinality({q \in Procs : procs[q].pc = "insert"}) <= MaxTx
    /\ procs' = Accept(p, IF car_id \in DOMAIN cars
                          THEN [IdleProc EXCEPT !.pc = "insert", !.op = "create",
                                                !.car_id = car_id, !.amount = amount,
                                                !.err = "running"]
                          ELSE [IdleProc EXCEPT !.op = "create", !.err = "NotFound"])
    /\ UNCHANGED <<cars, transactions, nextTxId, partners, last, pre, audit_logs>>

\* createTransaction: the row is inserted.
InsertRow(p) ==
    /\ procs[p].pc = "insert"
    /\ LET finalAmount == FinalAmount("sale_income", procs[p].amount, Null, Null)
       IN transactions' = transactions \cup
              {[id |-> nextTxId, car_id |-> procs[p].car_id, partner_id |-> Null,
                type |-> "sale_income", amount |-> finalAmount]}
    /\ nextTxId' = nextTxId + 1
    /\ procs' = [procs EXCEPT ![p].pc = "price", ![p].id = nextTxId]
    /\ UNCHANGED <<cars, partners, last, pre, audit_logs>>

\* Mutant: the creation writes the sum of the car's sale_income rows.
SetPriceCreate_Sum(p) ==
    /\ procs[p].pc = "price"
    /\ procs[p].op = "create"
    /\ cars' = [cars EXCEPT ![procs[p].car_id].sold_price =
                    <<SumAmounts(SaleIncomeRows(transactions, procs[p].car_id))>>]
    /\ procs' = [procs EXCEPT ![p].pc = "audit"]
    /\ UNCHANGED <<transactions, nextTxId, partners, last, pre, audit_logs>>

\* createTransaction: the car's sold_price is set to the amount.
SetPriceCreate(p) ==
    /\ procs[p].pc = "price"
    /\ procs[p].op = "create"
    /\ cars' = [cars EXCEPT ![procs[p].car_id].sold_price =
                    CreateSoldPrice("sale_income", procs[p].amount, @)]
    /\ procs' = [procs EXCEPT ![p].pc = "audit"]
    /\ UNCHANGED <<transactions, nextTxId, partners, last, pre, audit_logs>>

\* updateTransaction, first statement: the stored row is read.
BeginUpdate(p, id, amount) ==
    /\ ~ Running(p)
    /\ procs' = Accept(p, IF \E t \in transactions : t.id = id
                          THEN LET currentTransaction == CHOOSE t \in transactions : t.id = id
                               IN [IdleProc EXCEPT !.pc = "write", !.op = "update",
                                                   !.car_id = currentTransaction.car_id,
                                                   !.id = id, !.amount = amount,
                                                   !.row = Some(currentTransaction),
                                                   !.err = "running"]
                          ELSE [IdleProc EXCEPT !.op = "update", !.id = id,
                                                !.err = "NotFound"])
    /\ UNCHANGED <<cars, transactions, nextTxId, partners, last, pre, audit_logs>>

\* updateTransaction: the row with the id, if it is still stored, gets the
\* amount; result[0] is undefined if it is not.
UpdateRow(p) ==
    /\ procs[p].pc = "write"
    /\ procs[p].op = "update"
    /\ LET stored == {t \in transactions : t.id = procs[p].id}
           oldType == procs[p].row[1].type
       IN /\ transactions' = (transactions \ stored) \cup
                                 {[t EXCEPT !.amount = procs[p].amount] : t \in stored}
          /\ procs' = [procs EXCEPT ![p].updated = (stored # {}),
                                    ![p].pc = IF UpdateRecalculates(oldType, oldType)
                                              THEN "read" ELSE "audit"]
    /\ UNCHANGED <<cars, nextTxId, partners, last, pre, audit_logs>>

\* deleteTransaction, first statement: the stored row is read.
BeginDelete(p, id) ==
    /\ ~ Running(p)
    /\ procs' = Accept(p, IF \E t \in transactions : t.id = id
                          THEN LET transaction == CHOOSE t \in transactions : t.id = id
                               IN [IdleProc EXCEPT !.pc = "write", !.op = "delete",
                                                   !.car_id = transaction.car_id,
                                                   !.id = id, !.row = Some(transaction),
                                                   !.err = "running"]
                          ELSE [IdleProc EXCEPT !.op = "delete", !.id = id,
                                                !.err = "NotFound"])
    /\ UNCHANGED <<cars, transactions, nextTxId, partners, last, pre, audit_logs>>

\* deleteTransaction: the row with the id is deleted.
DeleteRow(p) ==
    /\ procs[p].pc = "write"
    /\ procs[p].op = "delete"
    /\ transactions' = {t \in transactions : t.id # procs[p].id}
    /\ procs' = [procs EXCEPT ![p].pc = IF procs[p].row[1].type = "sale_income"
                                        THEN "read" ELSE "audit"]
    /\ UNCHANGED <<cars, nextTxId, partners, last, pre, audit_logs>>

\* updateTransaction (recalculateSoldPrice) and deleteTransaction: the car's
\* sale_income rows are read and summed.
ReadSaleIncome(p) ==
    /\ procs[p].pc = "read"
    /\ procs' = [procs EXCEPT ![p].total =
                                  SumAmounts(SaleIncomeRows(transactions, procs[p].car_id)),
                              ![p].pc = "price"]
    /\ UNCHANGED <<cars, transactions, nextTxId, partners, last, pre, audit_logs>>

\* updateTransaction (recalculateSoldPrice) and deleteTransaction: the car's
\* sold_price is written from the sum that was read.
SetPriceRecalc(p) ==
    /\ procs[p].pc = "price"
    /\ procs[p].op \in {"update", "delete"}
    /\ cars' = [cars EXCEPT ![procs[p].car_id].sold_price =
                    SetColumn(@, IF procs[p].op = "update"
                                 THEN RecalculatedKey(procs[p].total)
                                 ELSE DeletedKey(procs[p].total))]
    /\ procs' = [procs EXCEPT ![p].pc = "audit"]
    /\ UNCHANGED <<transactions, nextTxId, partners, last, pre, audit_logs>>

\* The audit row is inserted and the request answered.  updateTransaction
\* reads updatedTransaction.car_id for the audit row, which throws when
\* result[0] was undefined.
Finish(p) ==
    /\ procs[p].pc = "audit"
    /\ procs' = [procs EXCEPT ![p] =
                    [IdleProc EXCEPT !.op = procs[p].op, !.car_id = procs[p].car_id,
                                     !.id = procs[p].id, !.amount = procs[p].amount,
                                     !.raced = procs[p].raced,
                                     !.err = IF procs[p].op = "update" /\ ~ procs[p].updated
                                             THEN "TypeError" ELSE "ok"]]
    /\ UNCHANGED <<cars, transactions, nextTxId, partners, last, pre, audit_logs>>

\* The status handlers, statement by statement: the car unit is read and the
\* request validated, the status is written, the audit row is inserted.  Here
\* audit_logs holds the rows of the audit_logs table in the order in which
\* they were inserted.  Of a request that has finished, the fields op, car_id
\* and err are kept, and of one that failed after its first statement the row
\* it had read as well.

\* Rows of audit_logs the status requests may come to insert.
MaxAudit == 2

\* A request is taken up only while the table has room for its audit row.
AuditRoom ==
    Len(audit_logs) + Cardinality({q \in Procs : Running(q)}) < MaxAudit

\* changeCarStatus (without notes), first statement and validation.
BeginChangeStatus(p, car_id, new_status) ==
    /\ ~ Running(p)
    /\ AuditRoom
    /\ procs' = Accept(p,
           IF car_id \notin DOMAIN cars
           THEN [IdleProc EXCEPT !.op = "changeCarStatus", !.err = "NotFound"]
           ELSE LET currentCar == cars[car_id]
                    err == ChangeStatusCheck(currentCar.status, new_status)
                IN IF err # "ok"
                   THEN [IdleProc EXCEPT !.op = "changeCarStatus", !.car_id = car_id,
                                         !.err = err]
                   ELSE [IdleProc EXCEPT !.pc = "status", !.op = "changeCarStatus",
                                         !.car_id = car_id, !.new_status = new_status,
                                         !.row = Some(currentCar), !.err = "running"])
    /\ UNCHANGED <<cars, transactions, nextTxId, partners, last, pre, audit_logs>>

\* archiveCarUnit, first statement and validation.
BeginArchive(p, carId) ==
    /\ ~ Running(p)
    /\ AuditRoom
    /\ procs' = Accept(p,
           IF carId \notin DOMAIN cars
           THEN [IdleProc EXCEPT !.op = "archiveCarUnit", !.err = "NotFound"]
           ELSE LET existingCar == cars[carId]
                    err == ArchiveCheck(existingCar.status)
                IN IF err # "ok"
                   THEN [IdleProc EXCEPT !.op = "archiveCarUnit", !.car_id = carId,
                                         !.err = err]
                   ELSE [IdleProc EXCEPT !.pc = "status", !.op = "archiveCarUnit",
                                         !.car_id = carId, !.new_status = "archived",
                                         !.row = Some(existingCar), !.err = "running"])
    /\ UNCHANGED <<cars, transactions, nextTxId, partners, last, pre, audit_logs>>

\* The update statement: the status is set on the row with the id.
WriteStatus(p) ==
    /\ procs[p].pc = "status"
    /\ cars' = [cars EXCEPT ![procs[p].car_id] =
                    IF procs[p].op = "changeCarStatus"
                    THEN ChangeStatusRow(@, procs[p].new_status, Null)
                    ELSE ArchiveRow(@)]
    /\ procs' = [procs EXCEPT ![p].pc = "audit"]
    /\ UNCHANGED <<transactions, nextTxId, partners, last, pre, audit_logs>>

\* The audit row of a status request, made from the row that was read.
StatusAuditRow(request) ==
    [entity_type |-> "car_unit", entity_id |-> request.car_id,
     action |-> "status_change",
     before_data |-> IF request.op = "changeCarStatus"
                     THEN Some([status |-> request.row[1].status,
                                notes |-> request.row[1].notes])
                     ELSE Some([status |-> request.row[1].status]),
     after_data |-> IF request.op = "changeCarStatus"
                    THEN Some([status |-> request.new_status,
                               notes |-> request.row[1].notes])
                    ELSE Some([status |-> "archived"])]

\* What is kept of a status request once it is answered.
Answered(request, err) ==
    [IdleProc EXCEPT !.op = request.op, !.car_id = request.car_id,
                     !.row = IF err = "ok" THEN Null ELSE request.row,
                     !.err = err]

\* The audit row is inserted and the request answered.
InsertStatusAudit(p) ==
    /\ procs[p].pc = "audit"
    /\ procs[p].op \in {"changeCarStatus", "archiveCarUnit"}
    /\ audit_logs' = Append(audit_logs, StatusAuditRow(procs[p]))
    /\ procs' = [procs EXCEPT ![p] = Answered(procs[p], "ok")]
    /\ UNCHANGED <<cars, transactions, nextTxId, partners, last, pre>>

\* The insert of the audit row fails (the store is not reachable, say): the
\* statement throws, the handler's catch block logs and rethrows.
StatusAuditFails(p) ==
    /\ procs[p].pc = "audit"
    /\ procs[p].op \in {"changeCarStatus", "archiveCarUnit"}
    /\ procs' = [procs EXCEPT ![p] = Answered(procs[p], "DbError")]
    /\ UNCHANGED <<cars, transactions, nextTxId, partners, last, pre, audit_logs>>

\* ------------------------------------------------------------ specification

\* The store as the test suites seed it: car units in draft with no price and
\* no notes, no transactions.
Init ==
    /\ cars = [c \in CarIds |-> [stock_code |-> SeedStockCode[c], status |-> "draft",
                                sold_price |-> Null, notes |-> Null]]
    /\ transactions = {}
    /\ nextTxId = 1
    /\ last = Idle
    /\ partners = [p \in PartnerIds |-> [name |-> "p", is_active |-> TRUE]]
    /\ procs = [p \in Procs |-> IdleProc]
    /\ audit_logs = << >>
    /\ pre = [cars |-> cars, transactions |-> transactions, partners |-> partners,
              audit_logs |-> audit_logs]

CallChangeCarStatus ==
    \E c \in CarIds \cup {NoSuchCar}, s \in UnitStatus, n \in NotesInputs :
        /\ changeCarStatus(c, s, n)
        /\ UNCHANGED audit_logs

CallArchiveCarUnit ==
    \E c \in CarIds \cup {NoSuchCar} :
        /\ archiveCarUnit(c)
        /\ UNCHANGED audit_logs

OptionOf(S) == {Null} \cup {Some(v) : v \in S}

CallCreateTransaction ==
    \E c \in CarIds \cup {NoSuchCar}, ty \in InputTypes, a \in Amounts, p \in Percentages :
        /\ createTransaction(c, Null, ty, a, p)
        /\ UNCHANGED audit_logs

CallUpdateTransaction ==
    \E id \in TxIds, c \in OptionOf(CarIds \cup {NoSuchCar}),
       ty \in OptionOf(InputTypes), a \in OptionOf(Amounts) :
        /\ updateTransaction(id, c, Undefined, ty, a)
        /\ UNCHANGED audit_logs

CallDeleteTransaction ==
    \E id \in TxIds :
        /\ deleteTransaction(id)
        /\ UNCHANGED audit_logs

NextLedger ==
    CallCreateTransaction \/ CallUpdateTransaction \/ CallDeleteTransaction \/ Return

SpecLedger == Init /\ [][NextLedger]_vars

NextStatus == CallChangeCarStatus \/ CallArchiveCarUnit \/ Return

SpecStatus == Init /\ [][NextStatus]_vars

\* Every operation that writes, one call at a time, each made on the first car
\* unit and the first partner or on an id nothing has, with a unit amount.
CallChangeCarStatusAll ==
    \E c \in {1, NoSuchCar}, s \in UnitStatus :
        /\ changeCarStatus(c, s, Null)
        /\ UNCHANGED audit_logs

CallArchiveCarUnitAll ==
    \E c \in {1, NoSuchCar} :
        /\ archiveCarUnit(c)
        /\ UNCHANGED audit_logs

CallCreateTransactionAll ==
    \E c \in {1, NoSuchCar}, p \in {Null, Some(1), Some(NoSuchPartner)}, ty \in InputTypes :
        /\ createTransaction(c, p, ty, 1, Null)
        /\ UNCHANGED audit_logs

CallUpdateTransactionAll ==
    \E id \in TxIds, c \in {Null, Some(NoSuchCar)},
       p \in {Undefined, Defined(Null), Defined(Some(1)), Defined(Some(NoSuchPartner))},
       ty \in OptionOf(InputTypes) :
        /\ updateTransaction(id, c, p, ty, Null)
        /\ UNCHANGED audit_logs

CallDeletePartner ==
    \E p \in {1, NoSuchPartner} :
        /\ deletePartner(p)
        /\ UNCHANGED audit_logs

CallUpdatePartner ==
    \E p \in {1, NoSuchPartner}, n \in {Undefined, Defined("q")},
       a \in {Undefined, Defined(TRUE), Defined(FALSE)} :
        /\ updatePartner(p, n, a)
        /\ UNCHANGED audit_logs

CallUpdateCarUnit ==
    \E c \in {1, NoSuchCar}, sp \in {Undefined, Defined(Null), Defined(Some(1))} :
        /\ updateCarUnit(c, Undefined, Undefined, Undefined, sp)
        /\ UNCHANGED audit_logs

NextAll ==
    \/ CallChangeCarStatusAll
    \/ CallArchiveCarUnitAll
    \/ CallCreateTransactionAll
    \/ CallUpdateTransactionAll
    \/ CallDeleteTransaction
    \/ CallDeletePartner
    \/ CallUpdatePartner
    \/ CallUpdateCarUnit
    \/ Return

SpecAll == Init /\ [][NextAll]_vars

\* The inventory: car units are created, copied and given other stock codes,
\* and a sale is booked on the first unit or on the first created one, so
\* that a unit with transactions and a price can be copied.
CreateCodes == {<<"A">>, <<"C">>, <<"A", "DUP", "1">>}

\* What Date.now() returns: two calls can see the same millisecond.
Timestamps == {"1", "2"}

CallCreateCarUnit ==
    \E code \in CreateCodes, s \in {Null, Some("sold")}, sp \in {Null, Some(1)} :
        /\ createCarUnit(code, s, sp, Null)
        /\ UNCHANGED audit_logs

CallDuplicateCarUnit ==
    \E c \in DOMAIN cars \cup {NoSuchCar}, t \in Timestamps :
        /\ duplicateCarUnit(c, t)
        /\ UNCHANGED audit_logs

CallUpdateStockCode ==
    \E c \in {1, 2, NoSuchCar}, code \in {<<"A">>, <<"B">>} :
        /\ updateCarUnit(c, Defined(code), Undefined, Undefined, Undefined)
        /\ UNCHANGED audit_logs

CallCreateSale ==
    \E c \in {1, 3} :
        /\ createTransaction(c, Null, "sale_income", 1, Null)
        /\ UNCHANGED audit_logs

NextInventory ==
    \/ CallCreateCarUnit
    \/ CallDuplicateCarUnit
    \/ CallUpdateStockCode
    \/ CallCreateSale
    \/ Return

SpecInventory == Init /\ [][NextInventory]_vars

\* The first car unit is taken through its statuses, edited directly and
\* copied, and transactions are booked on it and removed.
CallChangeCarStatusEdit ==
    \E c \in {1, NoSuchCar}, s \in UnitStatus, n \in {Null, Some("n")} :
        /\ changeCarStatus(c, s, n)
        /\ UNCHANGED audit_logs

CallUpdateCarUnitEdit ==
    \E c \in {1, NoSuchCar},
       n \in {Undefined, Defined(Null)},
       s \in {Undefined, Defined("draft")},
       sp \in {Undefined, Defined(Null), Defined(Some(2))} :
        /\ updateCarUnit(c, Undefined, n, s, sp)
        /\ UNCHANGED audit_logs

CallCreateCarUnitEdit ==
    /\ createCarUnit(<<"C">>, Some("archived"), Null, Null)
    /\ UNCHANGED audit_logs

CallCreateTransactionEdit ==
    \E ty \in InputTypes :
        /\ createTransaction(1, Some(1), ty, 1, Null)
        /\ UNCHANGED audit_logs

CallDuplicateCarUnitEdit ==
    /\ duplicateCarUnit(1, "1")
    /\ UNCHANGED audit_logs

NextEdit ==
    \/ CallChangeCarStatusEdit
    \/ CallArchiveCarUnitAll
    \/ CallUpdateCarUnitEdit
    \/ CallCreateCarUnitEdit
    \/ CallDuplicateCarUnitEdit
    \/ CallCreateTransactionEdit
    \/ CallDeleteTransaction
    \/ Return

SpecEdit == Init /\ [][NextEdit]_vars

\* The client's StatusChangeForm, shown for a car unit with its current
\* status: one of the targets it offers is chosen, the notes are what the
\* text area holds (a string, empty unless something was typed), and the form
\* is submitted to changeCarStatus.
StatusChangeForm(carId, new_status, notes) ==
    /\ carId \in DOMAIN cars
    /\ new_status \in statusTransitions[cars[carId].status]
    /\ changeCarStatus(carId, new_status, notes)
    /\ UNCHANGED audit_logs

CallStatusChangeForm ==
    \E c \in CarIds, s \in UnitStatus, n \in {Some(""), Some("n")} :
        StatusChangeForm(c, s, n)

NextForm == CallStatusChangeForm \/ Return

SpecForm == Init /\ [][NextForm]_vars

\* The audit_logs table under the operations that write a status, a
\* transaction or a partner's deactivation: the rows a call inserted are put
\* at the end of the table.  The first car unit is seeded as a draft or as a
\* sold unit (to be archived), and calls are made while the table has room.
InitAudit ==
    /\ \E s \in {"draft", "sold"} :
           cars = [c \in CarIds |->
                      [stock_code |-> SeedStockCode[c],
                       status |-> IF c = 1 THEN s ELSE "draft",
                       sold_price |-> Null, notes |-> Null]]
    /\ transactions = {}
    /\ nextTxId = 1
    /\ last = Idle
    /\ partners = [p \in PartnerIds |-> [name |-> "p", is_active |-> TRUE]]
    /\ procs = [p \in Procs |-> IdleProc]
    /\ audit_logs = << >>
    /\ pre = [cars |-> cars, transactions |-> transactions, partners |-> partners,
              audit_logs |-> audit_logs]

\* Mutant: the row a call inserts takes the place of the table's last row.
InsertAuditLogs_Overwrite ==
    audit_logs' = IF last'.audit = << >> THEN audit_logs
                  ELSE SubSeq(audit_logs, 1, Len(audit_logs) - 1) \o last'.audit

\* db.insert(auditLogsTable).values(...): the rows the call inserted are what
\* the table gains.
InsertAuditLogs ==
    audit_logs' = audit_logs \o last'.audit

CallChangeCarStatusAudit ==
    \E c \in {1, NoSuchCar}, s \in UnitStatus :
        /\ AuditRoom
        /\ changeCarStatus(c, s, Null)
        /\ InsertAuditLogs

CallArchiveCarUnitAudit ==
    \E c \in {1, NoSuchCar} :
        /\ AuditRoom
        /\ archiveCarUnit(c)
        /\ InsertAuditLogs

CallCreateTransactionAudit ==
    \E c \in {1, NoSuchCar}, p \in {Null, Some(1)} :
        /\ AuditRoom
        /\ createTransaction(c, p, "sale_income", 1, Null)
        /\ InsertAuditLogs

CallUpdateTransactionAudit ==
    \E id \in TxIds, ty \in OptionOf({"broker_fee"}) :
        /\ AuditRoom
        /\ updateTransaction(id, Null, Undefined, ty, Null)
        /\ InsertAuditLogs

CallDeleteTransactionAudit ==
    \E id \in TxIds :
        /\ AuditRoom
        /\ deleteTransaction(id)
        /\ InsertAuditLogs

CallDeletePartnerAudit ==
    \E p \in {1, NoSuchPartner} :
        /\ AuditRoom
        /\ deletePartner(p)
        /\ InsertAuditLogs

NextAudit ==
    \/ CallChangeCarStatusAudit
    \/ CallArchiveCarUnitAudit
    \/ CallCreateTransactionAudit
    \/ CallUpdateTransactionAudit
    \/ CallDeleteTransactionAudit
    \/ CallDeletePartnerAudit
    \/ Return

SpecAudit == InitAudit /\ [][NextAudit]_vars

\* Two processes, each serving one ledger request after another on sale_income
\* rows of the first car unit.
NextConc ==
    \E p \in Procs :
        \/ \E a \in ConcAmounts : BeginCreate(p, 1, a)
        \/ InsertRow(p)
        \/ SetPriceCreate(p)
        \/ \E id \in TxIds, a \in ConcAmounts : BeginUpdate(p, id, a)
        \/ UpdateRow(p)
        \/ \E id \in TxIds : BeginDelete(p, id)
        \/ DeleteRow(p)
        \/ ReadSaleIncome(p)
        \/ SetPriceRecalc(p)
        \/ Finish(p)

SpecConc == Init /\ [][NextConc]_vars

\* Two processes, each serving one status request after another on the first
\* car unit.
NextStatusConc ==
    \E p \in Procs :
        \/ \E s \in UnitStatus : BeginChangeStatus(p, 1, s)
        \/ BeginArchive(p, 1)
        \/ WriteStatus(p)
        \/ InsertStatusAudit(p)
        \/ StatusAuditFails(p)

SpecStatusConc == Init /\ [][NextStatusConc]_vars

\* The profit figures are functions of the stored rows.  The store they are
\* asked about is seeded as the test suites seed it, by inserting rows: up to
\* three transactions of any type on either car, and on the first car a
\* sold_price that is null, zero, or different from what its rows can sum to in
\* part, in status bought or sold.
SeedRowIds == {1, 2, 3}

SeedAmounts == {1, 2}

SeedPrices == {Null, Some(0), Some(3)}

SeedRows == [car_id : CarIds, type : TransactionType, amount : SeedAmounts]

InitSummary ==
    /\ \E s \in {"bought", "sold"}, sp \in SeedPrices :
           cars = [c \in CarIds |->
                      IF c = 1 THEN [stock_code |-> SeedStockCode[c], status |-> s,
                                      sold_price |-> sp, notes |-> Null]
                      ELSE [stock_code |-> SeedStockCode[c], status |-> "bought",
                            sold_price |-> Null, notes |-> Null]]
    /\ \E S \in SUBSET SeedRowIds : \E f \in [S -> SeedRows] :
           transactions = {[id |-> i, car_id |-> f[i].car_id, partner_id |-> Null,
                            type |-> f[i].type, amount |-> f[i].amount] : i \in S}
    /\ nextTxId = Cardinality(SeedRowIds) + 1
    /\ partners = [p \in PartnerIds |-> [name |-> "p", is_active |-> TRUE]]
    /\ procs = [p \in Procs |-> IdleProc]
    /\ audit_logs = << >>
    /\ last = Idle
    /\ pre = [cars |-> cars, transactions |-> transactions, partners |-> partners,
              audit_logs |-> audit_logs]

CallGetFinancialSummaryByCarId ==
    \E c \in CarIds \cup {NoSuchCar} :
        /\ getFinancialSummaryByCarId(c)
        /\ UNCHANGED audit_logs

NextSummary ==
    \/ CallGetFinancialSummaryByCarId
    \/ getDashboardKpis
    \/ getProfitReport
    \/ Return

SpecSummary == InitSummary /\ [][NextSummary]_vars

\* ------------------------------------------------------------------ claims

\* The call that was just answered was made on a stored car unit.
OnCar(op) == last.op = op /\ last.in.car_id \in CarIds

\* The transition table as the specification prints it, as (from, to) pairs.
TableEdges ==
    {<<"draft", "bought">>, <<"draft", "archived">>,
     <<"bought", "recond">>, <<"bought", "ready">>, <<"bought", "archived">>,
     <<"recond", "ready">>, <<"recond", "listed">>, <<"recond", "archived">>,
     <<"ready", "listed">>, <<"ready", "sold">>, <<"ready", "archived">>,
     <<"listed", "sold">>, <<"listed", "recond">>, <<"listed", "archived">>,
     <<"sold", "archived">>}

\* C1: changeCarStatus on a stored car succeeds, and stores status =
\* new_status, exactly when (current status, new_status) is an edge of the
\* transition table and new_status differs from the current status; in every
\* other case it fails and the stored car units are unchanged.
C1_ChangeStatusIffEdge ==
    OnCar("changeCarStatus") =>
        LET c == last.in.car_id
            cur == pre.cars[c].status
            new == last.in.new_status
        IN /\ (last.err = "ok") <=> (<<cur, new>> \in TableEdges /\ new # cur)
           /\ last.err = "ok" => cars[c].status = new
           /\ last.err # "ok" => cars = pre.cars

\* C1 witness: the back-tracking edge listed -> recond was taken.
C1_Witness ==
    /\ OnCar("changeCarStatus")
    /\ last.err = "ok"
    /\ pre.cars[last.in.car_id].status = "listed"
    /\ cars[last.in.car_id].status = "recond"

\* C7: archiveCarUnit on a stored car succeeds and stores status = archived
\* exactly when the current status is sold; from every other status it fails
\* with InvalidStatus and the stored car units are unchanged, although
\* changeCarStatus accepts archived from draft, bought, recond, ready, listed.
C7_ArchiveOnlyFromSold ==
    /\ (last.op = "archiveCarUnit" /\ last.in.carId \in CarIds) =>
           LET c == last.in.carId
               cur == pre.cars[c].status
           IN /\ (last.err = "ok") <=> (cur = "sold")
              /\ last.err = "ok" => cars[c].status = "archived"
              /\ last.err # "ok" => (last.err = "InvalidStatus" /\ cars = pre.cars)
    /\ (/\ OnCar("changeCarStatus")
        /\ last.in.new_status = "archived"
        /\ pre.cars[last.in.car_id].status \in {"draft", "bought", "recond", "ready", "listed"})
           => (last.err = "ok" /\ cars[last.in.car_id].status = "archived")

\* C7 witness: archiveCarUnit was refused on a listed car, which
\* changeCarStatus would have archived.
C7_Witness ==
    /\ last.op = "archiveCarUnit"
    /\ last.in.carId \in CarIds
    /\ last.err = "InvalidStatus"
    /\ pre.cars[last.in.carId].status = "listed"
    /\ cars[last.in.carId].status = "listed"

\* C8: once a car unit's status is archived it stays archived over every
\* step of changeCarStatus and archiveCarUnit, and each such call on it fails.
C8_ArchivedIsTerminal ==
    /\ \A c \in CarIds : pre.cars[c].status = "archived" => cars[c].status = "archived"
    /\ (OnCar("changeCarStatus") /\ pre.cars[last.in.car_id].status = "archived")
           => last.err # "ok"
    /\ (/\ last.op = "archiveCarUnit"
        /\ last.in.carId \in CarIds
        /\ pre.cars[last.in.carId].status = "archived")
           => last.err # "ok"

\* C8 witness: archiveCarUnit was called on an archived car and refused.
C8_Witness ==
    /\ last.op = "archiveCarUnit"
    /\ last.in.carId \in CarIds
    /\ pre.cars[last.in.carId].status = "archived"
    /\ last.err # "ok"
    /\ cars[last.in.carId].status = "archived"

\* C9: changeCarStatus with new_status equal to the car's current status
\* fails with AlreadyInStatus, for each of the seven statuses (archived, which
\* has no outgoing edge, included: the check comes before the table's).
C9_SameStatusAlreadyInStatus ==
    (OnCar("changeCarStatus") /\ last.in.new_status = pre.cars[last.in.car_id].status)
        => (last.err = "AlreadyInStatus" /\ cars = pre.cars)

\* C9 witness: archived -> archived was refused as AlreadyInStatus.
C9_Witness ==
    /\ OnCar("changeCarStatus")
    /\ pre.cars[last.in.car_id].status = "archived"
    /\ last.in.new_status = "archived"
    /\ last.err = "AlreadyInStatus"

\* C10 as stated: every changeCarStatus call on an archived car, for every
\* new_status of the seven, fails with InvalidTransition.
C10_Original ==
    (OnCar("changeCarStatus") /\ pre.cars[last.in.car_id].status = "archived")
        => last.err = "InvalidTransition"

\* C10 amended: every changeCarStatus call on an archived car fails, with
\* InvalidTransition for each of the six other statuses and with
\* AlreadyInStatus for new_status = archived.
C10_ArchivedRejectsAll ==
    (OnCar("changeCarStatus") /\ pre.cars[last.in.car_id].status = "archived")
        => /\ last.err = IF last.in.new_status = "archived"
                         THEN "AlreadyInStatus" ELSE "InvalidTransition"
           /\ cars = pre.cars

\* C10 witness: after archiveCarUnit archived the car, changeCarStatus to
\* bought was refused as InvalidTransition.
C10_Witness ==
    /\ OnCar("changeCarStatus")
    /\ pre.cars[last.in.car_id].status = "archived"
    /\ last.in.new_status = "bought"
    /\ last.err = "InvalidTransition"

\* The ledger as the claims read it: the sale_income rows of car c among the
\* rows txs, and their total.
LedgerRows(txs, c) == {t \in txs : t.type = "sale_income" /\ t.car_id = c}

RECURSIVE LedgerTotal(_)
LedgerTotal(rows) ==
    IF rows = {} THEN 0
    ELSE LET r == CHOOSE x \in rows : TRUE
         IN LedgerTotal(rows \ {r}) + r.amount

RowOf(txs, id) == CHOOSE t \in txs : t.id = id

Succeeded(op) == last.op = op /\ last.err = "ok"

\* C2: after createTransaction succeeds with type sale_income and amount A,
\* the car's sold_price is A, whatever sale_income rows the car already had.
C2_CreateAssignsSoldPrice ==
    (Succeeded("createTransaction") /\ last.in.type = "sale_income")
        => cars[last.in.car_id].sold_price = Some(last.in.amount)

\* C2 witness: a second sale_income of amount 1 was created on a car that
\* already had one of amount 1, and sold_price is 1.
C2_Witness ==
    /\ Succeeded("createTransaction")
    /\ last.in.type = "sale_income"
    /\ last.in.amount = 1
    /\ \E t \in LedgerRows(pre.transactions, last.in.car_id) : t.amount = 1
    /\ cars[last.in.car_id].sold_price = Some(1)

\* The car that owns the updated transaction after the update, and whether
\* the update involved sale_income (its type before or after).
UpdatedCar == RowOf(transactions, last.in.id).car_id

UpdateInvolvesSale ==
    \/ RowOf(pre.transactions, last.in.id).type = "sale_income"
    \/ RowOf(transactions, last.in.id).type = "sale_income"

C4_RetypeClearsSoldPrice ==
    (/\ Succeeded("updateTransaction")
     /\ RowOf(pre.transactions, last.in.id).amount > 0
     /\ LedgerRows(pre.transactions, UpdatedCar) = {RowOf(pre.transactions, last.in.id)}
     /\ LedgerRows(transactions, UpdatedCar) = {})
        => cars[UpdatedCar].sold_price = Null

C6_MoveReconcilesBothCars ==
    (/\ Succeeded("updateTransaction")
     /\ RowOf(pre.transactions, last.in.id).type = "sale_income"
     /\ RowOf(transactions, last.in.id).type = "sale_income"
     /\ RowOf(pre.transactions, last.in.id).car_id # UpdatedCar
     /\ RowOf(pre.transactions, last.in.id).amount > 0
     /\ LedgerTotal(LedgerRows(transactions, UpdatedCar)) > 0)
        => \A c \in {RowOf(pre.transactions, last.in.id).car_id, UpdatedCar} :
               cars[c].sold_price =
                   IF LedgerRows(transactions, c) = {} THEN Null
                   ELSE Some(LedgerTotal(LedgerRows(transactions, c)))

\* C11: a call of changeCarStatus, archiveCarUnit, createTransaction,
\* updateTransaction, deleteTransaction or deletePartner that fails leaves the
\* stored car units, transactions and partners exactly as they were before
\* the call, and inserts no audit row.
C11_FailedCallChangesNothing ==
    (/\ last.op \in {"changeCarStatus", "archiveCarUnit", "createTransaction",
                     "updateTransaction", "deleteTransaction", "deletePartner"}
     /\ last.err # "ok")
        => /\ cars = pre.cars
           /\ transactions = pre.transactions
           /\ partners = pre.partners
           /\ last.audit = << >>

\* C11 witness: with a transaction and a sold car in the store, a
\* createTransaction naming a partner that does not exist was refused.
C11_Witness ==
    /\ last.op = "createTransaction"
    /\ last.err = "PartnerNotFound"
    /\ pre.transactions # {}
    /\ pre.cars[1].status = "sold"
    /\ transactions = pre.transactions

\* Both processes have answered a request of one of the given operations on
\* car c, successfully, and the two requests overlapped.
BothAnswered(ops, c) ==
    \A p \in Procs :
        /\ ~ Running(p)
        /\ procs[p].op \in ops
        /\ procs[p].err = "ok"
        /\ procs[p].car_id = c
        /\ procs[p].raced

\* C12, as stated: after two concurrent createTransaction calls of type
\* sale_income on the same car have both completed, the car's sold_price does
\* not reflect only one of the two: it is neither the amount of the one nor
\* the amount of the other.
C12_Original ==
    \A c \in CarIds :
        BothAnswered({"create"}, c) =>
            \A p \in Procs : cars[c].sold_price # Some(procs[p].amount)

\* C12, amended: after two concurrent createTransaction calls of type
\* sale_income (amounts A and B) on the same car have both completed, the
\* car's sold_price is A or B.
C12_ConcurrentCreatesLastWriterWins ==
    \A c \in CarIds :
        BothAnswered({"create"}, c) =>
            \E p \in Procs : cars[c].sold_price = Some(procs[p].amount)

\* C12 witness: two overlapping creations with different amounts; the first
\* process inserted its row first and wrote its price last.
C12_Witness ==
    /\ BothAnswered({"create"}, 1)
    /\ procs[1].id = 1
    /\ procs[2].id = 2
    /\ procs[1].amount # procs[2].amount
    /\ cars[1].sold_price = Some(procs[1].amount)

\* C13: after a deleteTransaction and an updateTransaction have run
\* concurrently on sale_income transactions of one car, in whatever order
\* their steps interleaved, and both have completed, the car's sold_price
\* equals the sum of the sale_income transactions then stored for the car
\* (null if there is none).
C13_DeleteUpdateAtomic ==
    \A c \in CarIds :
        (BothAnswered({"update", "delete"}, c) /\ procs[1].op # procs[2].op) =>
            cars[c].sold_price =
                IF LedgerRows(transactions, c) = {} THEN Null
                ELSE Some(LedgerTotal(LedgerRows(transactions, c)))

\* The createTransaction just answered derives the amount: a broker_fee with a
\* percentage on a car whose sold_price was not null.
DerivesAmount ==
    /\ last.in.type = "broker_fee"
    /\ last.in.percentage # Null
    /\ pre.cars[last.in.car_id].sold_price # Null

\* sold_price * percentage / 100 in hundredths, times 100.
ExactFeeTimes100 == pre.cars[last.in.car_id].sold_price[1] * last.in.percentage[1]

\* C14, as stated: createTransaction stores amount = sold_price * percentage /
\* 100 when the type is broker_fee, the percentage is not null and the car's
\* sold_price is not null, whatever amount the caller supplied; in every
\* other case it stores the caller's amount.
C14_Original ==
    Succeeded("createTransaction") =>
        LET stored == RowOf(transactions, last.id).amount
        IN IF DerivesAmount
           THEN 100 * stored = ExactFeeTimes100
           ELSE stored = last.in.amount

\* C14, amended: in the derived case the stored amount is sold_price *
\* percentage / 100 rounded to the nearest hundredth, the scale of the amount
\* column; in every other case it is the caller's amount.
C14_BrokerFeeDerivedAndRounded ==
    Succeeded("createTransaction") =>
        LET stored == RowOf(transactions, last.id).amount
            diff == 100 * stored - ExactFeeTimes100
        IN IF DerivesAmount
           THEN -50 <= diff /\ diff <= 50
           ELSE stored = last.in.amount

\* C14 witness: a broker_fee of 50 percent on a sold_price of 0.01, created
\* with amount 0, is stored with amount 0.01 (0.005 rounded).
C14_Witness ==
    /\ Succeeded("createTransaction")
    /\ DerivesAmount
    /\ pre.cars[last.in.car_id].sold_price = Some(1)
    /\ last.in.percentage = Some(50)
    /\ last.in.amount = 0
    /\ RowOf(transactions, last.id).amount = 1

\* The call just answered succeeded and involved no sale_income transaction:
\* a deletion of a row of another type, a creation with another type, or an
\* update of a row whose type was and stays another type.
NoSaleIncomeInvolved ==
    \/ /\ Succeeded("deleteTransaction")
       /\ RowOf(pre.transactions, last.in.transactionId).type # "sale_income"
    \/ /\ Succeeded("createTransaction")
       /\ last.in.type # "sale_income"
    \/ /\ Succeeded("updateTransaction")
       /\ RowOf(pre.transactions, last.in.id).type # "sale_income"
       /\ RowOf(transactions, last.in.id).type # "sale_income"

\* C15: an operation that involves no sale_income transaction leaves every
\* car's sold_price as it was, also when that price differs from the sum of
\* the car's sale_income rows (as after a direct updateCarUnit).
C15_NonSaleLeavesSoldPrice ==
    NoSaleIncomeInvolved =>
        \A c \in CarIds : cars[c].sold_price = pre.cars[c].sold_price

\* C15 witness: a price of 0.01 stands on a car with no sale_income row, and
\* the deletion of the car's broker_fee row has left it there.
C15_Witness ==
    /\ Succeeded("deleteTransaction")
    /\ NoSaleIncomeInvolved
    /\ LedgerRows(pre.transactions, 1) = {}
    /\ pre.cars[1].sold_price = Some(1)
    /\ cars[1].sold_price = Some(1)

\* The partition of the transaction types into three buckets, as the
\* specification prints it.
AcquisitionBucket == {"acquisition"}

ExpenseBucket ==
    {"broker_fee", "workshop", "detailing", "transport", "admin", "tax", "other_expense"}

IncomeBucket == {"sale_income", "other_income"}

RECURSIVE BucketTotal(_, _, _)
\* The sum of the amounts of the rows of car c whose type is in bucket.
BucketTotal(txs, c, bucket) ==
    LET rows == {t \in txs : t.car_id = c /\ t.type \in bucket}
    IN IF rows = {} THEN 0
       ELSE LET r == CHOOSE x \in rows : TRUE
            IN r.amount + BucketTotal(txs \ {r}, c, bucket)

\* The profit the specification defines for car c.
PartitionProfit(txs, c) ==
    BucketTotal(txs, c, IncomeBucket) - BucketTotal(txs, c, AcquisitionBucket)
        - BucketTotal(txs, c, ExpenseBucket)

\* The summary of a stored car has just been returned.
Summarized == last.op = "getFinancialSummaryByCarId" /\ last.err = "ok"

\* C16: getFinancialSummaryByCarId returns total_acquisition, total_expenses
\* and total_incomes as the sums of the amounts of the car's transactions in
\* the acquisition, expense and income bucket, and profit = total_incomes -
\* total_acquisition - total_expenses; every transaction of the car is counted
\* in exactly one bucket, and the stored sold_price does not enter profit.
C16_SummaryBucketsAndProfit ==
    Summarized =>
        LET c == last.in.carId
            out == last.out
        IN /\ out.total_acquisition = BucketTotal(transactions, c, AcquisitionBucket)
           /\ out.total_expenses = BucketTotal(transactions, c, ExpenseBucket)
           /\ out.total_incomes = BucketTotal(transactions, c, IncomeBucket)
           /\ out.profit = out.total_incomes - out.total_acquisition - out.total_expenses
           /\ out.total_acquisition + out.total_expenses + out.total_incomes
                  = BucketTotal(transactions, c, TransactionType)
           /\ out.profit = PartitionProfit(transactions, c)

\* C16 witness: a car with a stored price and one transaction in each bucket,
\* the expense larger than the others, so that the profit is negative.
C16_Witness ==
    /\ Summarized
    /\ last.in.carId = 1
    /\ cars[1].sold_price = Some(3)
    /\ last.out.total_acquisition = 1
    /\ last.out.total_expenses = 2
    /\ last.out.total_incomes = 1
    /\ last.out.profit = -2

\* C17: getFinancialSummaryByCarId returns as sold_price the car's stored
\* sold_price whenever that is not null, also when it differs from the sum of
\* the car's sale_income amounts; otherwise that sum when it is greater than
\* zero; otherwise null.
C17_SummarySoldPrice ==
    Summarized =>
        LET c == last.in.carId
            stored == cars[c].sold_price
            saleSum == BucketTotal(transactions, c, {"sale_income"})
        IN last.out.sold_price =
               IF stored # Null THEN stored
               ELSE IF saleSum > 0 THEN Some(saleSum)
               ELSE Null

\* C17 witness: the stored price 0 is returned for a car whose sale_income
\* rows sum to 0.03.
C17_Witness ==
    /\ Summarized
    /\ cars[last.in.carId].sold_price = Some(0)
    /\ BucketTotal(transactions, last.in.carId, {"sale_income"}) = 3
    /\ last.out.sold_price = Some(0)

\* C18: the profit of a car that getDashboardKpis uses (for the top and the
\* bottom unit and for total_period_profit) and the profit of a unit that
\* getProfitReport adds up both equal the profit getFinancialSummaryByCarId
\* returns for the car, also for a car with income rows and a stored price.
C18_ConsumersUseSummaryProfit ==
    /\ last.op = "getDashboardKpis" =>
           \A c \in DOMAIN last.out.profitData :
               last.out.profitData[c] = FinancialSummary(transactions, cars[c], c).profit
    /\ last.op = "getProfitReport" =>
           \A c \in DOMAIN last.out.unitProfit :
               last.out.unitProfit[c] = FinancialSummary(transactions, cars[c], c).profit

\* The transactions that reference partner p.
ReferencesTo(txs, p) == {t \in txs : t.partner_id = Some(p)}

\* C19: no call changes a partner's is_active from true to false while a
\* transaction references the partner, whichever of deletePartner,
\* updatePartner, createTransaction, updateTransaction and deleteTransaction
\* it is.
C19_NoDeactivationWhileReferenced ==
    \A p \in PartnerIds :
        (pre.partners[p].is_active /\ ~ partners[p].is_active)
            => ReferencesTo(pre.transactions, p) = {}

\* C20: deletePartner on an active partner that one or more transactions
\* reference fails with HasDependents, leaves the partner active and writes no
\* audit row; on an inactive partner it fails with another error, the
\* already-inactive one (which comes first when the partner is referenced as
\* well); on an active partner that no transaction references it succeeds,
\* sets is_active to false and changes no other field of any partner.
C20_DeletePartnerOutcomes ==
    (last.op = "deletePartner" /\ last.in.partnerId \in PartnerIds) =>
        LET p == last.in.partnerId
            before == pre.partners[p]
            referenced == ReferencesTo(pre.transactions, p) # {}
        IN /\ (before.is_active /\ referenced) =>
                  /\ last.err = "HasDependents"
                  /\ partners = pre.partners
                  /\ partners[p].is_active
                  /\ last.audit = << >>
           /\ ~ before.is_active =>
                  /\ last.err = "AlreadyInactive"
                  /\ partners = pre.partners
                  /\ last.audit = << >>
           /\ (before.is_active /\ ~ referenced) =>
                  /\ last.err = "ok"
                  /\ partners = [pre.partners EXCEPT ![p].is_active = FALSE]
                  /\ Len(last.audit) = 1

\* C20 witness: a renamed partner referenced by two transactions was refused
\* deletion and is still active.
C20_Witness ==
    /\ last.op = "deletePartner"
    /\ last.err = "HasDependents"
    /\ Cardinality(ReferencesTo(transactions, 1)) = 2
    /\ partners[1] = [name |-> "q", is_active |-> TRUE]

\* C22: after a successful changeCarStatus the car's notes are the notes of
\* the input if notes were supplied, whatever string they are (the empty
\* string too), and the notes it had if none were supplied.
C22_SuppliedNotesOverwrite ==
    (OnCar("changeCarStatus") /\ last.err = "ok") =>
        cars[last.in.car_id].notes =
            IF last.in.notes # Null THEN last.in.notes
            ELSE pre.cars[last.in.car_id].notes

\* No two car units have the same stock code.
UniqueStockCodes(units) ==
    \A c, d \in DOMAIN units : units[c].stock_code = units[d].stock_code => c = d

C27_DuplicateIsFreshDraft ==
    (last.op = "duplicateCarUnit" /\ last.err = "ok") =>
        /\ last.id \notin DOMAIN pre.cars
        /\ DOMAIN cars = DOMAIN pre.cars \cup {last.id}
        /\ cars[last.id].status = "draft"
        /\ cars[last.id].sold_price = Null
        /\ \A t \in transactions : t.car_id # last.id
        /\ \A c \in DOMAIN pre.cars : cars[c] = pre.cars[c]
        /\ transactions = pre.transactions

\* C27 witness: a sold unit with a price and a sale_income row was copied.
C27_Witness ==
    /\ last.op = "duplicateCarUnit"
    /\ last.err = "ok"
    /\ cars[last.in.carId].status = "sold"
    /\ cars[last.in.carId].sold_price = Some(1)
    /\ \E t \in transactions : t.car_id = last.in.carId

\* C26: after a successful updateCarUnit every nullable field the input
\* supplies, as null too, has the supplied value, stored and returned,
\* sold_price among them; a field absent from the input is as it was.
C26_UpdateStoresSuppliedNulls ==
    (last.op = "updateCarUnit" /\ last.err = "ok") =>
        LET before == pre.cars[last.in.id]
            after == cars[last.in.id]
        IN /\ after.notes = IF last.in.notes.defined THEN last.in.notes.value
                            ELSE before.notes
           /\ after.sold_price = IF last.in.sold_price.defined
                                 THEN last.in.sold_price.value
                                 ELSE before.sold_price
           /\ last.out.sold_price = after.sold_price
           /\ last.out.notes = after.notes

\* C28: whatever operation is called, a stored status changes only along an
\* edge of the transition table; so an archived car unit, from which no edge
\* leaves, stays archived.
C28_StatusChangesFollowTable ==
    \A c \in DOMAIN pre.cars :
        cars[c].status # pre.cars[c].status =>
            cars[c].status \in ALLOWED_TRANSITIONS[pre.cars[c].status]

C29_FormTargetsAllowed ==
    OnCar("changeCarStatus") =>
        /\ last.in.new_status \in ALLOWED_TRANSITIONS[pre.cars[last.in.car_id].status]
        /\ last.err # "InvalidTransition"

\* C24: a status request whose audit insert failed after the status had been
\* written has ended in error, and the car unit is as the request found it:
\* the change is not stored without its audit row.  (Stated of a request
\* made while the other process has served none, so that no other request's
\* write is taken for its own.)
C24_FailedAuditLeavesNoChange ==
    \A p \in Procs :
        (procs[p].err = "DbError" /\ procs[Other(p)].op = "none") =>
            cars[procs[p].car_id] = procs[p].row[1]

\* C25: whatever the interleaving of two status requests on a car unit, every
\* status that is written is one the table allows from the status stored
\* just before the write.
C25_WritesFollowTable ==
    [][\A c \in DOMAIN cars :
          cars'[c].status # cars[c].status =>
              cars'[c].status \in ALLOWED_TRANSITIONS[cars[c].status]]_vars

\* The operations whose audit rows C23 is about.
AuditedOps ==
    {"changeCarStatus", "archiveCarUnit", "createTransaction", "updateTransaction",
     "deleteTransaction", "deletePartner"}

\* The entity, its id and the action that the audit row of the call just
\* answered has to name.
ExpectedAuditKey ==
    CASE last.op = "changeCarStatus" ->
             [entity_type |-> "car_unit", entity_id |-> last.in.car_id,
              action |-> "status_change"]
      [] last.op = "archiveCarUnit" ->
             [entity_type |-> "car_unit", entity_id |-> last.in.carId,
              action |-> "status_change"]
      [] last.op = "createTransaction" ->
             [entity_type |-> "transaction", entity_id |-> last.id, action |-> "create"]
      [] last.op = "updateTransaction" ->
             [entity_type |-> "transaction", entity_id |-> last.in.id, action |-> "update"]
      [] last.op = "deleteTransaction" ->
             [entity_type |-> "transaction", entity_id |-> last.in.transactionId,
              action |-> "delete"]
      [] last.op = "deletePartner" ->
             [entity_type |-> "partner", entity_id |-> last.in.partnerId,
              action |-> "delete"]

\* C23: the audit log only grows at its end: the rows it had when a call
\* started are still there, unchanged and in place, when the call is answered.
\* A successful changeCarStatus, archiveCarUnit, createTransaction,
\* updateTransaction, deleteTransaction or deletePartner has added exactly one
\* row, for the entity it changed and with its action (status_change with the
\* old status before and the new status after, create, update, delete); a
\* failed one has added none.
C23_AuditAppendOnly ==
    LET before == pre.audit_logs
        n == Len(before)
    IN /\ Len(audit_logs) >= n
       /\ SubSeq(audit_logs, 1, n) = before
       /\ (last.op \in AuditedOps /\ last.err # "ok") => audit_logs = before
       /\ (last.op \in AuditedOps /\ last.err = "ok") =>
              /\ Len(audit_logs) = n + 1
              /\ LET row == audit_logs[n + 1]
                 IN /\ [entity_type |-> row.entity_type, entity_id |-> row.entity_id,
                        action |-> row.action] = ExpectedAuditKey
                    /\ row.action = "status_change" =>
                           /\ row.before_data[1].status =
                                  pre.cars[row.entity_id].status
                           /\ row.after_data[1].status = cars[row.entity_id].status
                           /\ row.after_data[1].status # row.before_data[1].status

\* C23 witness: the log held the row of a created transaction and an archived
\* car unit added a second row behind it.
C23_Witness ==
    /\ last.op = "archiveCarUnit"
    /\ last.err = "ok"
    /\ Len(pre.audit_logs) = 1
    /\ pre.audit_logs[1].action = "create"
    /\ Len(audit_logs) = 2
    /\ audit_logs[2].action = "status_change"
====
